---- MODULE Spec2Model ----
(***************************************************************************)
(* Model of mic_roster_selenium.py: the shift extractor                    *)
(* (process_response_cal) as an operator over rendered documents, and the  *)
(* scraping run (main, login, fetch_next_page_html) as a state machine     *)
(* over one browser session.                                               *)
(*                                                                         *)
(* Texts are sequences of one-character strings.  A rendered document is   *)
(* a record [heading, cells]: heading is the month-heading span (present   *)
(* or not, with its label), cells maps a grid position to the td with id   *)
(* ...DateCell{n}: [td, div, frags], where frags are the text fragments    *)
(* found under the div.                                                    *)
(***************************************************************************)
EXTENDS Integers, Sequences, FiniteSets

VARIABLES pc, driver, page, today, cur, response, output, phase, i,
          landmark, clicks, captured, extracted, faults

vars == <<pc, driver, page, today, cur, response, output, phase, i,
          landmark, clicks, captured, extracted, faults>>

(* ------------------------------ bounds --------------------------------- *)

\* grid positions a document may carry a td for (a six-week grid has 42)
MaxCell == 42
\* width of the window of freely chosen cells in the extraction inputs
MaxWindow == 2
\* characters per text fragment under a div
MaxFragLen == 2
\* captures of a run that may catch the page before the postback settled
MaxFaults == 1

(* --------------------------- program constants ------------------------- *)

\* a bug the scan could have: it stops one position early
ScanStopShort == 40 - 1

\* for cell in range(1, 40): the scan stops before this position
ScanStop == 40
\* for i in range(24)
MonthsBack == 24

(* ------------------------------- texts --------------------------------- *)

Chars == {"A", ")", " "}

RECURSIVE LStrip(_)
LStrip(s) ==
  IF s # <<>> /\ Head(s) = " " THEN LStrip(Tail(s)) ELSE s

RECURSIVE RStrip(_)
RStrip(s) ==
  IF s # <<>> /\ s[Len(s)] = " " THEN RStrip(SubSeq(s, 1, Len(s) - 1)) ELSE s

Strip(s) == RStrip(LStrip(s))

\* get_text(strip=True): every fragment stripped, the empty ones dropped,
\* the rest joined with nothing between them
RECURSIVE GetText(_)
GetText(frags) ==
  IF frags = <<>> THEN <<>> ELSE Strip(Head(frags)) \o GetText(Tail(frags))

\* str.replace(")", ") ")
RECURSIVE Replace(_)
Replace(s) ==
  IF s = <<>> THEN <<>>
  ELSE IF Head(s) = ")" THEN <<")", " ">> \o Replace(Tail(s))
  ELSE <<Head(s)>> \o Replace(Tail(s))

\* a bug the normalization could have: only the first ")" is spaced
RECURSIVE ReplaceFirst(_)
ReplaceFirst(s) ==
  IF s = <<>> THEN <<>>
  ELSE IF Head(s) = ")" THEN <<")", " ">> \o Tail(s)
  ELSE <<Head(s)>> \o ReplaceFirst(Tail(s))

NormalizeFirstOnly(cell_text) ==
  IF \E j \in 1..Len(cell_text) : cell_text[j] = ")"
  THEN ReplaceFirst(cell_text) ELSE cell_text

\* cell_text.replace(")", ") ") if ")" in cell_text else cell_text
Normalize(cell_text) ==
  IF \E j \in 1..Len(cell_text) : cell_text[j] = ")"
  THEN Replace(cell_text) ELSE cell_text

\* decimal digits of a positive integer
RECURSIVE Digits(_)
Digits(n) == IF n < 10 THEN <<n>> ELSE Digits(n \div 10) \o <<n % 10>>

\* d = f"0{date}" if date < 10 else date, as it is then written out
FormatDay(date) == IF date < 10 THEN <<0, date>> ELSE Digits(date)

(* ----------------------------- documents ------------------------------- *)

\* month = None
None == [mon |-> 0, year |-> 0]

NoHeading == [present |-> FALSE, label |-> None]
Heading(label) == [present |-> TRUE, label |-> label]

AbsentCell == [td |-> FALSE, div |-> FALSE, frags |-> <<>>]
NoDivCell == [td |-> TRUE, div |-> FALSE, frags |-> <<>>]
DivCell(frags) == [td |-> TRUE, div |-> TRUE, frags |-> frags]

(* ----------------------- process_response_cal -------------------------- *)

HeadingLine(month) ==
  [kind |-> "heading", month |-> month, d |-> <<>>, text |-> <<>>, cell |-> 0]

\* one written shift line; cell records the loop variable it was written
\* under (it is not part of the written text)
ShiftLine(date, month, cell_text, cell) ==
  [kind |-> "shift", month |-> month, d |-> FormatDay(date),
   text |-> cell_text, cell |-> cell]

\* the text under the td at a grid position: "" when the td has no div
CellTextOf(cell_content) ==
  Normalize(IF cell_content.div THEN GetText(cell_content.frags) ELSE <<>>)

\* a bug the day counter could have: it advances on every present cell
CellStepEveryCell(doc, month, cell, st) ==
  LET cell_content ==
        IF cell \in DOMAIN doc.cells THEN doc.cells[cell] ELSE AbsentCell
      cell_text == CellTextOf(cell_content)
  IN IF ~cell_content.td THEN st
     ELSE [date |-> st.date + 1,
           lines |-> IF cell_text # <<>>
                     THEN Append(st.lines,
                                 ShiftLine(st.date, month, cell_text, cell))
                     ELSE st.lines,
           cell_data |-> [p \in (DOMAIN st.cell_data) \cup {st.date} |->
                            IF p = st.date THEN cell_text ELSE st.cell_data[p]]]

\* one pass of the loop body for grid position cell; st holds the day
\* counter date, the lines written so far and the cell_data dictionary
CellStep(doc, month, cell, st) ==
  LET cell_content ==
        IF cell \in DOMAIN doc.cells THEN doc.cells[cell] ELSE AbsentCell
      cell_text == CellTextOf(cell_content)
  IN IF ~cell_content.td THEN st
     ELSE [date |-> IF cell_text # <<>> THEN st.date + 1 ELSE st.date,
           lines |-> IF cell_text # <<>>
                     THEN Append(st.lines,
                                 ShiftLine(st.date, month, cell_text, cell))
                     ELSE st.lines,
           cell_data |-> [p \in (DOMAIN st.cell_data) \cup {st.date} |->
                            IF p = st.date THEN cell_text ELSE st.cell_data[p]]]

\* the passes of the loop body for the positions lo..hi, in ascending
\* order, from the state st.  The range is worked in two halves, the first
\* half brought to a value before the second starts from it, which keeps
\* the evaluation shallow; the passes and their order are the loop's.
RECURSIVE ScanCells(_, _, _, _, _)
ScanCells(doc, month, lo, hi, st) ==
  IF lo > hi THEN st
  ELSE IF lo = hi THEN CellStep(doc, month, lo, st)
  ELSE LET mid == (lo + hi) \div 2
           half == ScanCells(doc, month, lo, mid, st)
       IN IF half.date >= 1
          THEN ScanCells(doc, month, mid + 1, hi, half)
          ELSE half

\* what one call writes, and the cell_data it leaves behind: cell_data = {},
\* date = 1, for cell in range(1, 40)
process_response_cal(doc) ==
  LET month == IF doc.heading.present THEN doc.heading.label ELSE None
      first == IF doc.heading.present THEN <<HeadingLine(month)>> ELSE <<>>
  IN ScanCells(doc, month, 1, ScanStop - 1,
               [date |-> 1, lines |-> first, cell_data |-> <<>>])

(* ------------------- documents given to the extractor ------------------ *)

Label(m) == [mon |-> (m % 12) + 1, year |-> m \div 12]

SeqsUpTo(S, n) == UNION {[1..k -> S] : k \in 0..n}

TextA == <<<<"A">>>>
TextAB == <<<<" ", "A", ")">>, <<"A", " ">>>>

CellKinds == {AbsentCell, NoDivCell, DivCell(TextA), DivCell(TextAB)}

\* every combination of MaxWindow neighbouring cells, anywhere on the grid,
\* the rest of the grid all absent or all filled
WindowDocs ==
  {[heading |-> h,
    cells |-> [p \in 1..MaxCell |->
                 IF p \in (s + 1)..(s + MaxWindow) THEN w[p - s] ELSE fill]] :
     h \in {NoHeading, Heading(Label(24288))},
     s \in 0..(MaxCell - MaxWindow),
     w \in [1..MaxWindow -> CellKinds],
     fill \in {AbsentCell, DivCell(TextA)}}

\* 31 cells in a row, the 5th and the 17th absent, every other one with text
Example31 ==
  [heading |-> Heading(Label(24288)),
   cells |-> [p \in 1..MaxCell |->
                IF p \in 1..31 /\ p \notin {5, 17}
                THEN DivCell(TextA) ELSE AbsentCell]]

\* one cell whose div holds any two text fragments over Chars
TextDocs ==
  {[heading |-> Heading(Label(24288)),
    cells |-> [p \in 1..MaxCell |->
                 IF p = 1 THEN DivCell(<<f, g>>) ELSE AbsentCell]] :
     f \in SeqsUpTo(Chars, MaxFragLen), g \in SeqsUpTo(Chars, MaxFragLen)}

ExtractDocs == WindowDocs \cup {Example31} \cup TextDocs

(* --------------------------- the remote site --------------------------- *)

NoDoc == [heading |-> NoHeading, cells |-> <<>>]

DaysIn(mon) ==
  IF mon \in {4, 6, 9, 11} THEN 30 ELSE IF mon = 2 THEN 28 ELSE 31

\* the roster page the site renders for month m: the month's days follow
\* m % 7 padding positions; a day carries a shift, an empty div or no div
MonthDoc(m) ==
  LET days == DaysIn(Label(m).mon)
      offset == m % 7
  IN [heading |-> Heading(Label(m)),
      cells |-> [p \in 1..MaxCell |->
                   LET day == p - offset
                   IN IF day \in 1..days
                      THEN IF (day + m) % 9 = 0 THEN DivCell(TextAB)
                           ELSE IF day % 2 = 0 THEN NoDivCell
                           ELSE DivCell(<<>>)
                      ELSE AbsentCell]]

\* page_source read before the postback has rendered the month heading
Unsettled(doc) == [heading |-> NoHeading, cells |-> doc.cells]

Todays == {24288, 24293}

(* ------------------------------- the run ------------------------------- *)

\* module level: driver = webdriver.Chrome(...); nothing has run yet
Init ==
  /\ pc = "start"
  /\ driver = "open"
  /\ page = "blank"
  /\ today \in Todays
  /\ cur = today
  /\ response = NoDoc
  /\ output = <<>>
  /\ phase = "login"
  /\ i = 0
  /\ landmark = FALSE
  /\ clicks = 0
  /\ captured = 0
  /\ extracted = 0
  /\ faults = 0

\* login: driver.get(url)
LoginGet ==
  /\ pc = "start"
  /\ page' = "login"
  /\ pc' = "wait_id"
  /\ UNCHANGED <<driver, today, cur, response, output, phase, i, landmark,
                 clicks, captured, extracted, faults>>

\* login: the identifier field is present within the timeout
LoginWaitIdOk ==
  /\ pc = "wait_id"
  /\ pc' = "submit"
  /\ UNCHANGED <<driver, page, today, cur, response, output, phase, i,
                 landmark, clicks, captured, extracted, faults>>

\* login: WebDriverWait raises TimeoutException, which nothing catches
LoginWaitIdTimeout ==
  /\ pc = "wait_id"
  /\ pc' = "crashed"
  /\ UNCHANGED <<driver, page, today, cur, response, output, phase, i,
                 landmark, clicks, captured, extracted, faults>>

\* login: send_keys twice, click the login button
LoginSubmit ==
  /\ pc = "submit"
  /\ pc' = "wait_landmark"
  /\ UNCHANGED <<driver, page, today, cur, response, output, phase, i,
                 landmark, clicks, captured, extracted, faults>>

\* login: the next-month link is present within the timeout
LoginWaitLandmarkOk ==
  /\ pc = "wait_landmark"
  /\ page' = "roster"
  /\ landmark' = TRUE
  /\ pc' = "login_return"
  /\ UNCHANGED <<driver, today, cur, response, output, phase, i,
                 clicks, captured, extracted, faults>>

\* login: the second WebDriverWait raises TimeoutException
LoginWaitLandmarkTimeout ==
  /\ pc = "wait_landmark"
  /\ pc' = "crashed"
  /\ UNCHANGED <<driver, page, today, cur, response, output, phase, i,
                 landmark, clicks, captured, extracted, faults>>

\* login: return driver.page_source
LoginReturn ==
  /\ pc = "login_return"
  /\ response' = MonthDoc(cur)
  /\ captured' = captured + 1
  /\ phase' = "current"
  /\ pc' = "process"
  /\ UNCHANGED <<driver, page, today, cur, output, i, landmark, clicks,
                 extracted, faults>>

\* main: process_response_cal(<the captured page>), then the sleep after it
ProcessStep ==
  /\ pc = "process"
  /\ output' = output \o process_response_cal(response).lines
  /\ extracted' = extracted + 1
  /\ pc' = IF phase = "current" THEN "fetch_next" ELSE "loop"
  /\ UNCHANGED <<driver, page, today, cur, response, phase, i, landmark,
                 clicks, captured, faults>>

\* a bug the loop could have: one iteration short
LoopMoreShort == i < MonthsBack - 1

\* for i in range(24): i counts the iterations begun
LoopMore == i < MonthsBack

LoopEnter ==
  /\ pc = "loop"
  /\ LoopMore
  /\ i' = i + 1
  /\ pc' = "fetch_prev"
  /\ UNCHANGED <<driver, page, today, cur, response, output, phase,
                 landmark, clicks, captured, extracted, faults>>

LoopExit ==
  /\ pc = "loop"
  /\ ~LoopMore
  /\ pc' = "quit"
  /\ UNCHANGED <<driver, page, today, cur, response, output, phase, i,
                 landmark, clicks, captured, extracted, faults>>

\* fetch_next_page_html: find_element_by_id raises NoSuchElementException
FetchMissing ==
  /\ pc \in {"fetch_next", "fetch_prev"}
  /\ pc' = "crashed"
  /\ UNCHANGED <<driver, page, today, cur, response, output, phase, i,
                 landmark, clicks, captured, extracted, faults>>

\* fetch_next_page_html: the control is found and clicked; the site moves
\* the calendar one month
FetchClick ==
  /\ pc \in {"fetch_next", "fetch_prev"}
  /\ cur' = IF pc = "fetch_next" THEN cur + 1 ELSE cur - 1
  /\ phase' = IF pc = "fetch_next" THEN "forward" ELSE "retreat"
  /\ clicks' = clicks + 1
  /\ pc' = "settle"
  /\ UNCHANGED <<driver, page, today, response, output, i, landmark,
                 captured, extracted, faults>>

\* a bug the run could have: the captured page is dropped, not processed
FetchCaptureDropped ==
  /\ pc = "settle"
  /\ response' = MonthDoc(cur)
  /\ captured' = captured + 1
  /\ pc' = "loop"
  /\ UNCHANGED <<driver, page, today, cur, output, phase, i, landmark,
                 clicks, extracted, faults>>

\* fetch_next_page_html: time.sleep(1); return driver.page_source.  The
\* page read is the new month, or (the sleep is no readiness signal) the new
\* month not yet showing its heading, or still the page read before
FetchCapture ==
  /\ pc = "settle"
  /\ \/ /\ response' = MonthDoc(cur)
        /\ faults' = faults
     \/ /\ faults < MaxFaults
        /\ response' = Unsettled(MonthDoc(cur))
        /\ faults' = faults + 1
     \/ /\ faults < MaxFaults
        /\ response' = response
        /\ faults' = faults + 1
  /\ captured' = captured + 1
  /\ pc' = "process"
  /\ UNCHANGED <<driver, page, today, cur, output, phase, i, landmark,
                 clicks, extracted>>

\* main: driver.quit()
DriverQuit ==
  /\ pc = "quit"
  /\ driver' = "closed"
  /\ pc' = "done"
  /\ UNCHANGED <<page, today, cur, response, output, phase, i, landmark,
                 clicks, captured, extracted, faults>>

Next ==
  \/ LoginGet
  \/ LoginWaitIdOk
  \/ LoginWaitIdTimeout
  \/ LoginSubmit
  \/ LoginWaitLandmarkOk
  \/ LoginWaitLandmarkTimeout
  \/ LoginReturn
  \/ ProcessStep
  \/ LoopEnter
  \/ LoopExit
  \/ FetchMissing
  \/ FetchClick
  \/ FetchCapture
  \/ DriverQuit

Spec == Init /\ [][Next]_vars

(* ------------------- the extractor on given documents ------------------ *)

InitExtract ==
  /\ pc = "call"
  /\ driver = "open"
  /\ page = "blank"
  /\ today = 24288
  /\ cur = 24288
  /\ response \in ExtractDocs
  /\ output = <<>>
  /\ phase = "login"
  /\ i = 0
  /\ landmark = FALSE
  /\ clicks = 0
  /\ captured = 1
  /\ extracted = 0
  /\ faults = 0

\* process_response_cal(response)
ExtractCall ==
  /\ pc = "call"
  /\ output' = process_response_cal(response).lines
  /\ extracted' = extracted + 1
  /\ pc' = "returned"
  /\ UNCHANGED <<driver, page, today, cur, response, phase, i, landmark,
                 clicks, captured, faults>>

NextExtract == ExtractCall

SpecExtract == InitExtract /\ [][NextExtract]_vars

(* ------------------------------ claims --------------------------------- *)

IsShift(line) == line.kind = "shift"
IsHeading(line) == line.kind = "heading"

Shifts == SelectSeq(output, IsShift)
Headings == SelectSeq(output, IsHeading)

\* the number a written day reads as
RECURSIVE DayNumber(_)
DayNumber(d) ==
  IF d = <<>> THEN 0 ELSE 10 * DayNumber(SubSeq(d, 1, Len(d) - 1)) + d[Len(d)]

\* the text the extractor reads at grid position p of the document in hand
CellText(p) ==
  IF p \in DOMAIN response.cells /\ response.cells[p].td /\ response.cells[p].div
  THEN GetText(response.cells[p].frags) ELSE <<>>

CellPresent(p) == p \in DOMAIN response.cells /\ response.cells[p].td

\* C1: on every exit path of the run (completion, a login wait that times
\* out, a navigation control that is not found) the browser session is
\* closed: no run ends with the session still open.
C1_SessionReleasedOnEveryExit ==
  pc \in {"done", "crashed"} => driver = "closed"

\* C2: after a complete run over a calendar whose controls move the month
\* by exactly one, no two written entries share (monthLabel, day).
C2_NoDuplicateMonthDay ==
  (pc = "done" /\ faults = 0) =>
    LET sh == Shifts
    IN \A a, b \in 1..Len(sh) :
         a # b => <<sh[a].month, sh[a].d>> # <<sh[b].month, sh[b].d>>

\* C3: for a document lacking the month heading, the extractor emits no
\* DayShift at all, whatever the cells contain.
C3_NoHeadingEmitsNothing ==
  (pc = "returned" /\ ~response.heading.present) => output = <<>>

\* C4: when exactly one step of the retreating phase reads a page without
\* month heading, that month is recorded as a gap: once its extraction is
\* over, the output holds no DayShift for it (none without a month label).
C4_InvalidRetreatIsGap ==
  (pc = "loop" /\ phase = "retreat" /\ faults = 1 /\ ~response.heading.present) =>
    \A k \in 1..Len(Shifts) : Shifts[k].month # None

\* the month shown at the k-th extraction of a run started at month today
VisitedMonth(k) == IF k = 1 THEN today ELSE today + 3 - k

Emitting == {p \in 1..(ScanStop - 1) : CellPresent(p) /\ Normalize(CellText(p)) # <<>>}

\* C6: for a document with a month heading the extractor emits exactly one
\* DayShift per scanned position whose cell is present with non-empty
\* text, in ascending grid order, numbered 1..k; absent and empty cells
\* emit nothing and do not advance the counter.
C6_OneShiftPerNonEmptyCell ==
  (pc = "returned" /\ response.heading.present) =>
    LET sh == Shifts
        em == Emitting
    IN /\ Len(sh) = Cardinality(em)
       /\ \A k \in 1..Len(sh) : sh[k].cell \in em /\ DayNumber(sh[k].d) = k
       /\ \A k \in 1..(Len(sh) - 1) : sh[k].cell < sh[k + 1].cell

C6_Witness ==
  /\ pc = "returned"
  /\ response = Example31
  /\ Len(Shifts) = 29
  /\ DayNumber(Shifts[29].d) = 29
  /\ \A k \in 1..Len(Shifts) : Shifts[k].cell \notin {5, 17}

\* C7: the day number of every emitted DayShift is the calendar day of its
\* cell: the rank of the cell among the cells present on the grid.
C7_DayIsRankAmongPresentCells ==
  pc = "returned" =>
    LET sh == Shifts
    IN \A k \in 1..Len(sh) :
         DayNumber(sh[k].d) = Cardinality({p \in 1..sh[k].cell : CellPresent(p)})

\* the position in the output of the j-th character of the input
Shifted(in, j) == j + Cardinality({q \in 1..(j - 1) : in[q] = ")"})

\* out is in with one space put after every ")" and nothing else changed
SpaceAfterEveryParen(in, out) ==
  /\ Len(out) = Len(in) + Cardinality({q \in 1..Len(in) : in[q] = ")"})
  /\ \A j \in 1..Len(in) :
       /\ out[Shifted(in, j)] = in[j]
       /\ in[j] = ")" => out[Shifted(in, j) + 1] = " "

\* C8: every emitted shift text is the cell text with one space inserted
\* after every ")" and otherwise unchanged (unchanged when it has no ")").
C8_SpaceAfterEveryParen ==
  pc = "returned" =>
    LET sh == Shifts
    IN \A k \in 1..Len(sh) :
         LET in == CellText(sh[k].cell)
         IN /\ SpaceAfterEveryParen(in, sh[k].text)
            /\ (\A q \in 1..Len(in) : in[q] # ")") => sh[k].text = in

C8_Witness ==
  /\ pc = "returned"
  /\ \E k \in 1..Len(Shifts) :
       LET in == CellText(Shifts[k].cell)
       IN /\ Cardinality({q \in 1..Len(in) : in[q] = ")"}) = 2
          /\ \E q \in 1..(Len(in) - 1) : in[q] = ")" /\ in[q + 1] = "A"
          /\ Len(Shifts[k].text) = Len(in) + 2

\* C9: navigation is strictly sequential: a control is clicked only when
\* every page captured so far has been extracted, every click is followed
\* by one capture and one extraction, and no click precedes the landmark.
C9_StrictlySequential ==
  /\ clicks <= extracted
  /\ extracted <= captured
  /\ captured <= clicks + 1
  /\ clicks > 0 => landmark

C9_Witness ==
  /\ pc = "settle"
  /\ phase = "retreat"
  /\ clicks = 3
  /\ captured = 3
  /\ extracted = 3

\* C10 as claimed: a present, non-empty cell at any position 1..42 of the
\* grid is emitted as a DayShift.
C10_EveryGridCellEmitted ==
  pc = "returned" =>
    LET sh == Shifts
    IN \A p \in 1..42 :
         (CellPresent(p) /\ CellText(p) # <<>>) =>
           \E k \in 1..Len(sh) : sh[k].cell = p

\* C10 amended: the scan covers positions 1..39 in ascending order: a
\* present, non-empty cell at a position 1..39 is emitted, and no cell at a
\* position of 40 or more ever is.
C10_First39CellsEmitted ==
  pc = "returned" =>
    LET sh == Shifts
    IN /\ \A p \in 1..39 :
            (CellPresent(p) /\ CellText(p) # <<>>) =>
              \E k \in 1..Len(sh) : sh[k].cell = p
       /\ \A k \in 1..Len(sh) : sh[k].cell <= 39
       /\ \A k \in 1..(Len(sh) - 1) : sh[k].cell < sh[k + 1].cell

C10_Witness ==
  /\ pc = "returned"
  /\ CellPresent(39) /\ CellText(39) # <<>>
  /\ CellPresent(40) /\ CellText(40) # <<>>
  /\ \E k \in 1..Len(Shifts) : Shifts[k].cell = 39
  /\ \A k \in 1..Len(Shifts) : Shifts[k].cell # 40

====
